---------------------------- MODULE Spec2Model ----------------------------
(***************************************************************************)
(* Model of October_2025/github_replicator.py: the recursive walk-and-copy *)
(* of GitHubReplicator.replicate_folder, the root-level loop of main, the  *)
(* rewrite step update_content_references, and the remote store they talk  *)
(* to.  Paths, names and file contents are sequences of one-character      *)
(* strings, so that str.replace is computed character by character.        *)
(***************************************************************************)
EXTENDS Integers, Sequences, FiniteSets

VARIABLES
    store,   \* the remote store: file path -> [type, content]
    init,    \* the store as it was before the run (history variable)
    pc,      \* "start", "run", "done", "aborted" (main's except handler), "idle"
    stack,   \* active invocations: <<main's loop, replicate_folder, ...>>
    ev,      \* the last step of the walk and the calls it issued
    rpc,     \* position of the rewrite run: "off", "idle", "once", "twice"
    rin,     \* text given to update_content_references
    rout,    \* update_content_references(rin)
    rout2    \* update_content_references(rout)

vars == <<store, init, pc, stack, ev, rpc, rin, rout, rout2>>

----------------------------------------------------------------------------
(* Bounds of the model *)

\* the initial store holds at most this many files
MaxFiles == 3
\* the store accepts no path of more than this many segments
MaxDepth == 8
\* a text given to the rewrite step is made of at most this many pieces
MaxPieces == 3

----------------------------------------------------------------------------
(* Strings *)

Slash == <<"/">>

StartsWith(s, pre) ==
    /\ Len(s) >= Len(pre)
    /\ SubSeq(s, 1, Len(pre)) = pre

\* the index of the first "/" of s, 0 when it holds none
IndexOfSlash(s) ==
    IF \E i \in 1..Len(s) : s[i] = "/"
    THEN CHOOSE i \in 1..Len(s) :
            /\ s[i] = "/"
            /\ \A j \in 1..(i - 1) : s[j] # "/"
    ELSE 0

\* the number of segments of a path
Depth(p) == Cardinality({i \in 1..Len(p) : p[i] = "/"}) + 1

Contains(s, t) ==
    \E i \in 1..(Len(s) - Len(t) + 1) : SubSeq(s, i, i + Len(t) - 1) = t

\* Python's s.replace(old, new) for a non-empty old: every occurrence, found
\* left to right, without rescanning what was put in.
RECURSIVE Replace(_, _, _)
Replace(s, old, new) ==
    IF Len(s) < Len(old) THEN s
    ELSE IF SubSeq(s, 1, Len(old)) = old
         THEN new \o Replace(SubSeq(s, Len(old) + 1, Len(s)), old, new)
         ELSE <<Head(s)>> \o Replace(Tail(s), old, new)

----------------------------------------------------------------------------
(* update_content_references *)

Nav_Oct_2025 == <<"N","a","v","_","O","c","t","_","2","0","2","5">>
October_2025 == <<"O","c","t","o","b","e","r","_","2","0","2","5">>
October == <<"O","c","t","o","b","e","r">>
october == <<"o","c","t","o","b","e","r">>
Oct == <<"O","c","t">>
oct == <<"o","c","t">>
Dash10 == <<"2","0","2","5","-","1","0">>
Slash10 == <<"1","0","/","2","0","2","5">>

ReplacementsSelfFeeding ==
    << <<Nav_Oct_2025, Nav_Oct_2025>>,
       <<October_2025, October_2025>>,
       <<October, October_2025>>,
       <<october, october>>,
       <<Oct, Oct>>,
       <<oct, oct>>,
       <<Dash10, Dash10>>,
       <<Slash10, Slash10>> >>

\* the replacements dict, in insertion order: <<old, new>>
Replacements ==
    << <<Nav_Oct_2025, Nav_Oct_2025>>,
       <<October_2025, October_2025>>,
       <<October, October>>,
       <<october, october>>,
       <<Oct, Oct>>,
       <<oct, oct>>,
       <<Dash10, Dash10>>,
       <<Slash10, Slash10>> >>

RECURSIVE ApplyFrom(_, _)
ApplyFrom(content, k) ==
    IF k > Len(Replacements) THEN content
    ELSE ApplyFrom(Replace(content, Replacements[k][1], Replacements[k][2]), k + 1)

UpdateContentReferences(content) == ApplyFrom(content, 1)

----------------------------------------------------------------------------
(* The remote store *)

\* a byte that is not valid UTF-8: decode('utf-8') raises on it
BadByte == "xFF"

Decodes(bytes) == \A i \in 1..Len(bytes) : bytes[i] # BadByte

Prefix(path) == IF path = <<>> THEN <<>> ELSE path \o Slash

\* GET contents/{path} of a directory: its immediate entries
List(st, path) ==
    LET pre == Prefix(path)
        under == {p \in DOMAIN st : StartsWith(p, pre) /\ Len(p) > Len(pre)}
        Rest(p) == SubSeq(p, Len(pre) + 1, Len(p))
        Name(p) == LET i == IndexOfSlash(Rest(p))
                   IN  IF i = 0 THEN Rest(p) ELSE SubSeq(Rest(p), 1, i - 1)
    IN  { [name |-> Name(p),
           path |-> pre \o Name(p),
           type |-> IF IndexOfSlash(Rest(p)) = 0 THEN st[p].type ELSE "dir"]
          : p \in under }

\* the store has room for a new file at path p: nothing is there, p is no
\* directory and no file stands where a directory of p would have to be
CanCreate(st, p) ==
    /\ p \notin DOMAIN st
    /\ \A q \in DOMAIN st : ~StartsWith(q, p \o Slash) /\ ~StartsWith(p, q \o Slash)
    /\ Depth(p) <= MaxDepth

WriteFile(st, p, content) ==
    [q \in DOMAIN st \cup {p} |->
        IF q = p THEN [type |-> "file", content |-> content] ELSE st[q]]

\* PUT contents/{path}: the status the store answers and the store after it.
\* A request that carries no sha creates and never replaces: 201 when the
\* path was free, 422 when it was not; one that carries the sha of the file
\* at the path replaces it (200).  accept = FALSE is any other refusal.
Put(st, req, accept) ==
    IF ~accept THEN [status |-> 403, store |-> st]
    ELSE IF req.path \in DOMAIN st
         THEN IF req.withSha
              THEN [status |-> 200, store |-> WriteFile(st, req.path, req.content)]
              ELSE [status |-> 422, store |-> st]
         ELSE IF CanCreate(st, req.path)
              THEN [status |-> 201, store |-> WriteFile(st, req.path, req.content)]
              ELSE [status |-> 422, store |-> st]

----------------------------------------------------------------------------
(* GitHubReplicator *)

PutDataWithSha(path, content) ==
    [path |-> path, content |-> content, withSha |-> TRUE]

\* create_file's request body: a message and the content, no sha
PutData(path, content) ==
    [path |-> path, content |-> content, withSha |-> FALSE]

\* create_file returns True on 201 and on nothing else
Created(status) == status = 201

\* get_folder_contents: the listing on 200, [] on any other status
GetFolderContents(st, path, ok) == IF ok THEN List(st, path) ELSE {}

\* get_file_content before decoding: the bytes on 200, nothing otherwise
FetchedBytes(st, path, ok) == IF ok THEN st[path].content ELSE <<>>

\* the mapping of replicate_folder: path.replace(source_folder, target_folder)
PathMap(path, source_folder, target_folder) ==
    Replace(path, source_folder, target_folder)

RootTargetUnprefixed(name) == name

\* the mapping of main: f"October_2025/{name}"
RootTarget(name) == October_2025 \o Slash \o name

README_md == <<"R","E","A","D","M","E",".","m","d">>
Gitignore == <<".","g","i","t","i","g","n","o","r","e">>

SkippedEverywhere(kind, name) == name \in {Gitignore, README_md}

SkippedNowhere(kind, name) == FALSE

\* main copies a file unless its name is in ['.gitignore', 'README.md'];
\* replicate_folder copies every file
Skipped(kind, name) == kind = "main" /\ name \in {Gitignore, README_md}

ShouldCreateAlways(content) == TRUE

\* "if content:" a create is attempted for non-empty content only
ShouldCreate(content) == content # <<>>

----------------------------------------------------------------------------
(* The store before the run *)

nA == <<"A">>
nB == <<"B">>
nS == <<"s">>
nL == <<"L">>

Join(a, b) == a \o Slash \o b

\* a symbolic link of the store: listed with type "symlink"
LinkPath == Join(nS, nL)

CandidatePaths ==
    { nA,
      README_md,
      Join(nS, README_md),
      Join(Join(nS, nS), nA),
      LinkPath,
      Join(October_2025, nA),
      Join(Join(Join(October_2025, October_2025), October_2025), nB) }

\* a file is empty, holds text, or holds bytes that are no UTF-8
Contents == { <<>>, Oct, <<BadByte>> }

\* the files that may hold bytes that are no UTF-8: one of the root, one of
\* a directory
BinaryPaths == { nA, Join(Join(nS, nS), nA) }

CandidateValues(p) ==
    IF p = LinkPath
    THEN { [type |-> "symlink", content |-> <<>>] }
    ELSE { [type |-> "file", content |-> c] :
             c \in IF p \in BinaryPaths THEN Contents ELSE Contents \ { <<BadByte>> } }

InitStores ==
    UNION { { f \in [S -> UNION {CandidateValues(p) : p \in S}] :
                \A p \in S : f[p] \in CandidateValues(p) }
            : S \in {T \in SUBSET CandidatePaths : Cardinality(T) <= MaxFiles} }

----------------------------------------------------------------------------
(* Invocations *)

\* the locals of one invocation: main's loop (kind "main") or one call of
\* replicate_folder (kind "walk").  contents is the listing it fetched, todo
\* the entries its for loop has not reached; fetches, creates and calls count
\* the get_file_content, create_file and replicate_folder calls it made
\* itself, and created holds the entries whose create_file returned True.
MainFrame(contents) ==
    [kind |-> "main", source_folder |-> <<>>, target_folder |-> October_2025,
     contents |-> contents, todo |-> contents,
     success_count |-> 0, total_count |-> Cardinality(contents),
     fetches |-> 0, creates |-> 0, calls |-> 0, created |-> {}]

WalkFrame(source_folder, target_folder, contents) ==
    [kind |-> "walk", source_folder |-> source_folder, target_folder |-> target_folder,
     contents |-> contents, todo |-> contents,
     success_count |-> 0, total_count |-> 0,
     fetches |-> 0, creates |-> 0, calls |-> 0, created |-> {}]

Top == stack[Len(stack)]

SetTop(f) == [stack EXCEPT ![Len(stack)] = f]

\* "total_count += 1" opens every iteration of replicate_folder's loop;
\* main set total_count = len(contents) before its loop
Counted(f) ==
    IF f.kind = "walk" THEN [f EXCEPT !.total_count = @ + 1] ELSE f

Reached(f, item) == [Counted(f) EXCEPT !.todo = @ \ {item}]

AfterFileStoppingOnFailure(f, item, issued, ok) ==
    [Reached(f, item) EXCEPT
        !.todo = IF issued /\ ~ok THEN {} ELSE @,
        !.fetches = @ + 1,
        !.creates = IF issued THEN @ + 1 ELSE @,
        !.success_count = IF ok THEN @ + 1 ELSE @,
        !.created = IF ok THEN @ \cup {item} ELSE @]

\* the invocation's locals after the file branch of one iteration
AfterFile(f, item, issued, ok) ==
    [Reached(f, item) EXCEPT
        !.fetches = @ + 1,
        !.creates = IF issued THEN @ + 1 ELSE @,
        !.success_count = IF ok THEN @ + 1 ELSE @,
        !.created = IF ok THEN @ \cup {item} ELSE @]

\* the path create_file is called with for a file entry
TargetPath(f, item) ==
    IF f.kind = "main"
    THEN RootTarget(item.name)
    ELSE PathMap(item.path, f.source_folder, f.target_folder)

\* the (source, target) pair replicate_folder is called with for a dir entry
TargetFolder(f, item) ==
    IF f.kind = "main"
    THEN RootTarget(item.name)
    ELSE PathMap(item.path, f.source_folder, f.target_folder)

SourceFolder(f, item) == IF f.kind = "main" THEN item.name ELSE item.path

NoEv ==
    [op |-> "none", kind |-> "none", source_folder |-> <<>>, target_folder |-> <<>>,
     item |-> <<>>, name |-> <<>>, fetched |-> FALSE, fetch_ok |-> FALSE,
     content |-> <<>>, issued |-> FALSE, target |-> <<>>, written |-> <<>>,
     status |-> 0, ok |-> FALSE, success_count |-> 0, total_count |-> 0, listed |-> {},
     fetches |-> 0, creates |-> 0, calls |-> 0, created |-> {}]

EvOf(op, f) ==
    [NoEv EXCEPT !.op = op, !.kind = f.kind,
                 !.source_folder = f.source_folder, !.target_folder = f.target_folder]

EvItem(op, f, item) ==
    [EvOf(op, f) EXCEPT !.item = item.path, !.name = item.name]

----------------------------------------------------------------------------
(* The run *)

RewriteOff == rpc = "off" /\ rin = <<>> /\ rout = <<>> /\ rout2 = <<>>

Init ==
    /\ store \in InitStores
    /\ init = store
    /\ pc = "start"
    /\ stack = <<>>
    /\ ev = NoEv
    /\ RewriteOff

\* main, lines 190-198: list the repository root and set up the counts
MainList ==
    /\ pc = "start"
    /\ \E ok \in BOOLEAN :
        LET contents == GetFolderContents(store, <<>>, ok) IN
        /\ stack' = <<MainFrame(contents)>>
        /\ ev' = [NoEv EXCEPT !.op = "list", !.kind = "main", !.listed = contents]
    /\ pc' = "run"
    /\ UNCHANGED <<store, init, rpc, rin, rout, rout2>>

\* one iteration on a file entry, lines 148-168 and 201-221: fetch, and for
\* non-empty content rewrite and create at the mapped path.  Bytes that do
\* not decode raise out of get_file_content to main's except: the run ends.
ProcessFile ==
    /\ pc = "run"
    /\ \E item \in Top.todo, fetch_ok \in BOOLEAN, accept \in BOOLEAN :
        /\ item.type = "file"
        /\ ~Skipped(Top.kind, item.name)
        /\ LET bytes == FetchedBytes(store, item.path, fetch_ok) IN
           IF ~Decodes(bytes)
           THEN /\ pc' = "aborted"
                /\ stack' = <<>>
                /\ store' = store
                /\ ev' = [EvItem("raise", Top, item) EXCEPT !.fetched = TRUE, !.fetch_ok = TRUE]
           ELSE LET content == bytes
                    target == TargetPath(Top, item)
                    issued == ShouldCreate(content)
                    written == UpdateContentReferences(content)
                    answer == Put(store, PutData(target, written), accept)
                    ok == issued /\ Created(answer.status)
                    f == AfterFile(Top, item, issued, ok)
                IN  /\ pc' = "run"
                    /\ store' = IF issued THEN answer.store ELSE store
                    /\ stack' = SetTop(f)
                    /\ ev' = [EvItem("file", Top, item) EXCEPT
                                !.fetched = TRUE, !.fetch_ok = fetch_ok,
                                !.content = content, !.issued = issued,
                                !.target = IF issued THEN target ELSE <<>>,
                                !.written = IF issued THEN written ELSE <<>>,
                                !.status = IF issued THEN answer.status ELSE 0,
                                !.ok = ok,
                                !.success_count = f.success_count,
                                !.total_count = f.total_count]
    /\ UNCHANGED <<init, rpc, rin, rout, rout2>>

\* one iteration of main on a file it leaves out, line 201: neither branch
SkipFile ==
    /\ pc = "run"
    /\ \E item \in Top.todo :
        /\ item.type = "file"
        /\ Skipped(Top.kind, item.name)
        /\ stack' = SetTop(Reached(Top, item))
        /\ ev' = EvItem("skip", Top, item)
    /\ UNCHANGED <<store, init, pc, rpc, rin, rout, rout2>>

\* one iteration on an entry that is neither 'file' nor 'dir' (a symlink):
\* no branch is taken
ProcessOther ==
    /\ pc = "run"
    /\ \E item \in Top.todo :
        /\ item.type \notin {"file", "dir"}
        /\ stack' = SetTop(Reached(Top, item))
        /\ ev' = EvItem("other", Top, item)
    /\ UNCHANGED <<store, init, pc, rpc, rin, rout, rout2>>

ReturnedAddingToCaller(f, child) ==
    [f EXCEPT !.success_count = @ + child.success_count,
              !.total_count = @ + child.total_count]

\* what the caller's locals are once a call of replicate_folder has
\* returned: the callee's counts are its own locals and are dropped
Returned(f, child) == f

\* one iteration on a 'dir' entry, lines 170-176 and 223-229, up to the
\* listing the callee starts with (lines 133-136)
EnterDir ==
    /\ pc = "run"
    /\ \E item \in Top.todo, ok \in BOOLEAN :
        /\ item.type = "dir"
        /\ LET source == SourceFolder(Top, item)
               target == TargetFolder(Top, item)
               contents == GetFolderContents(store, source, ok)
               f == [Reached(Top, item) EXCEPT !.calls = @ + 1]
           IN  /\ stack' = Append(SetTop(f), WalkFrame(source, target, contents))
               /\ ev' = [EvItem("dir", Top, item) EXCEPT
                            !.target = target, !.listed = contents]
    /\ UNCHANGED <<store, init, pc, rpc, rin, rout, rout2>>

\* what an invocation has done when it returns; op is "empty" when it
\* returned on "if not contents" (lines 138-140, 192-194), without a tally,
\* and "report" when it printed its tally (line 178, lines 231-232)
Report(f) ==
    [EvOf(IF f.contents = {} THEN "empty" ELSE "report", f) EXCEPT
        !.success_count = f.success_count, !.total_count = f.total_count,
        !.listed = f.contents, !.fetches = f.fetches, !.creates = f.creates,
        !.calls = f.calls, !.created = f.created]

\* the invocation returns: its listing was empty, or its loop is over
Return ==
    /\ pc = "run"
    /\ Top.todo = {}
    /\ ev' = Report(Top)
    /\ IF Len(stack) = 1
       THEN /\ pc' = "done"
            /\ stack' = <<>>
       ELSE /\ pc' = "run"
            /\ stack' = [SubSeq(stack, 1, Len(stack) - 1) EXCEPT
                            ![Len(stack) - 1] = Returned(@, Top)]
    /\ UNCHANGED <<store, init, rpc, rin, rout, rout2>>

Next == MainList \/ ProcessFile \/ SkipFile \/ ProcessOther \/ EnterDir \/ Return

Spec == Init /\ [][Next]_vars

----------------------------------------------------------------------------
(* The rewrite step alone, on texts built from pieces of its tokens *)

Pieces ==
    { <<"N","a","v","_">>, Oct, oct, <<"o","b","e","r">>, <<"_","2","0","2","5">>,
      <<"2","0","2","5","-">>, <<"1","0">>, <<"/","2","0","2","5">>, <<"x">> }

RECURSIVE TextsOf(_)
TextsOf(n) ==
    IF n = 0 THEN { <<>> }
    ELSE TextsOf(n - 1) \cup { t \o q : t \in TextsOf(n - 1), q \in Pieces }

Texts == TextsOf(MaxPieces)

HasToken(t) == \E k \in 1..Len(Replacements) : Contains(t, Replacements[k][1])

InitRewrite ==
    /\ store = <<>>
    /\ init = <<>>
    /\ pc = "idle"
    /\ stack = <<>>
    /\ ev = NoEv
    /\ rpc = "idle"
    /\ rin \in Texts
    /\ rout = <<>>
    /\ rout2 = <<>>

RewriteOnce ==
    /\ rpc = "idle"
    /\ rout' = UpdateContentReferences(rin)
    /\ rpc' = "once"
    /\ UNCHANGED <<store, init, pc, stack, ev, rin, rout2>>

RewriteTwice ==
    /\ rpc = "once"
    /\ rout2' = UpdateContentReferences(rout)
    /\ rpc' = "twice"
    /\ UNCHANGED <<store, init, pc, stack, ev, rin, rout>>

NextRewrite == RewriteOnce \/ RewriteTwice

SpecRewrite == InitRewrite /\ [][NextRewrite]_vars

----------------------------------------------------------------------------
(* Claims *)

DestPrefix == October_2025 \o Slash

FilesOf(contents) == {e \in contents : e.type = "file"}
DirsOf(contents) == {e \in contents : e.type = "dir"}

\* the entry of the caller's loop that the last step was about
Item(f) == CHOOSE e \in f.contents : e.path = ev'.item

\* C1: the create call for the file at source path D/rel, reached at any
\* depth below the root-level directory D, targets exactly
\* "October_2025/D/rel": the leading segment is replaced, once.
C1_PathMappingExact ==
    ev.op = "file" /\ ev.kind = "walk" /\ ev.issued
        => ev.target = DestPrefix \o ev.item

\* C2: creation never overwrites: every step leaves every file of the store
\* where it is with the content it has; the store changes only by one file
\* added at a path that held nothing, by a create call answered 201; and a
\* create refused because the path exists leaves the store as it is and the
\* loop moves on to the next entry.
C2_NeverOverwrites ==
    [][ /\ \A p \in DOMAIN store : p \in DOMAIN store' /\ store'[p] = store[p]
        /\ \A p \in DOMAIN init : p \in DOMAIN store' /\ store'[p] = init[p]
        /\ store' # store =>
              /\ ev'.op = "file" /\ ev'.issued /\ ev'.ok
              /\ ev'.target \notin DOMAIN store
              /\ DOMAIN store' = DOMAIN store \cup {ev'.target}
        /\ ev'.op = "file" /\ ev'.issued /\ ev'.target \in DOMAIN store =>
              /\ ~ev'.ok
              /\ store' = store
              /\ pc' = "run"
              /\ \A e \in stack'[Len(stack')].todo : e.path # ev'.item
      ]_vars

\* a create was refused (422) at a path that held a file before the run
C2_Witness ==
    /\ ev.op = "file" /\ ev.issued /\ ev.status = 422
    /\ ev.target \in DOMAIN init
    /\ store[ev.target].content # ev.written

\* C3: in replicate_folder, a file entry whose fetch fails or yields the empty
\* string gets no create call, raises nothing, counts one in the level's
\* total and nothing in its success count.
C3_EmptyFetchSkipsCreate ==
    [][ ev'.op = "file" /\ ev'.kind = "walk" /\ (~ev'.fetch_ok \/ ev'.content = <<>>) =>
          /\ ~ev'.issued
          /\ ev'.target = <<>>
          /\ store' = store
          /\ pc' = "run"
          /\ Len(stack') = Len(stack)
          /\ stack'[Len(stack')].total_count = Top.total_count + 1
          /\ stack'[Len(stack')].success_count = Top.success_count
          /\ stack'[Len(stack')].creates = Top.creates
      ]_vars

\* replicate_folder met a file whose fetch failed, and one that is empty
C3_Witness ==
    /\ ev.op = "file" /\ ev.kind = "walk" /\ ~ev.fetch_ok
    /\ pc = "run"
    /\ \E p \in DOMAIN init : /\ init[p].content = <<>>
                              /\ init[p].type = "file"
                              /\ Depth(p) > 1
                              /\ p # ev.item

\* C4: a create that returns false is not fatal: the invocation goes on with
\* the entries it had left, the enclosing invocations are as they were, and
\* the entry counts in the level's total and not in its success count.
C4_CreateFailureNonFatal ==
    [][ ev'.op = "file" /\ ev'.issued /\ ~ev'.ok =>
          /\ pc' = "run"
          /\ Len(stack') = Len(stack)
          /\ SubSeq(stack', 1, Len(stack) - 1) = SubSeq(stack, 1, Len(stack) - 1)
          /\ stack'[Len(stack')].contents = Top.contents
          /\ stack'[Len(stack')].todo = Top.todo \ {Item(Top)}
          /\ stack'[Len(stack')].success_count = Top.success_count
          /\ stack'[Len(stack')].created = Top.created
          /\ stack'[Len(stack')].total_count =
                IF Top.kind = "walk" THEN Top.total_count + 1
                ELSE Cardinality(Top.contents)
      ]_vars

\* a create failed in a nested invocation while entries were left at that
\* level and at an enclosing one
C4_Witness ==
    /\ ev.op = "file" /\ ev.issued /\ ~ev.ok
    /\ Len(stack) >= 2
    /\ Top.todo # {}
    /\ stack[1].todo # {}

C6_PerLevelCounters ==
    ev.op = "report" =>
        /\ ev.total_count = Cardinality(ev.listed)
        /\ ev.created \subseteq FilesOf(ev.listed)
        /\ ev.success_count = Cardinality(ev.created)
        /\ ev.success_count <= ev.total_count

\* main reports after a subdirectory copied files that its tally leaves out
C6_Witness ==
    /\ ev.op = "report" /\ ev.kind = "main"
    /\ DirsOf(ev.listed) # {}
    /\ ev.success_count >= 1
    /\ Cardinality(DOMAIN store \ DOMAIN init) > ev.success_count

ExistedBefore(dir) == \E p \in DOMAIN init : StartsWith(p, dir \o Slash)

\* invocation j walks a directory that the run created in the subtree that
\* the enclosing invocation i is writing to
Feeds(i, j) ==
    /\ i < j
    /\ stack[i].kind = "walk" /\ stack[j].kind = "walk"
    /\ ~ExistedBefore(stack[j].source_folder)
    /\ \/ stack[j].source_folder = stack[i].target_folder
       \/ StartsWith(stack[j].source_folder, stack[i].target_folder \o Slash)

\* C9: every run terminates: the recursion does not descend without end into
\* directories the run itself created.  For a finite run: the recursion does
\* not feed itself again and again, that is, no invocation walks a directory
\* created under the target of an enclosing invocation that itself walks a
\* directory created under the target of one enclosing it.
C9_Terminates ==
    ~ \E i, j, k \in 1..Len(stack) : Feeds(i, j) /\ Feeds(j, k)

\* C10: writes are confined to the destination root: every create call
\* targets a path under "October_2025/", every invocation of replicate_folder
\* has a target under "October_2025/", and every path it maps starts with its
\* target folder.
C10_WritesConfined ==
    /\ ev.issued => StartsWith(ev.target, DestPrefix)
    /\ \A i \in 1..Len(stack) :
          stack[i].kind = "walk" => StartsWith(stack[i].target_folder, DestPrefix)
    /\ ev.kind = "walk" /\ (ev.issued \/ ev.op = "dir") =>
          StartsWith(ev.target, ev.target_folder \o Slash)
    /\ \A p \in DOMAIN store \ DOMAIN init : StartsWith(p, DestPrefix)

\* a file was created from an invocation two levels below a root directory
C10_Witness ==
    /\ ev.op = "file" /\ ev.ok
    /\ Len(stack) >= 3
    /\ \E p \in DOMAIN store \ DOMAIN init : Depth(p) >= 4

\* C7: update_content_references is idempotent with the table as the code
\* configures it, rewrite(rewrite(t)) = rewrite(t), and it returns a text
\* that holds none of the configured find tokens unchanged.
C7_RewriteIdempotent ==
    /\ rpc \in {"once", "twice"} /\ ~HasToken(rin) => rout = rin
    /\ rpc = "twice" => rout2 = rout

\* a text that holds two overlapping tokens has been rewritten twice
C7_Witness ==
    /\ rpc = "twice"
    /\ Contains(rin, Dash10)
    /\ Contains(rin, Slash10)

=============================================================================
